---- MODULE Spec2Model ----
(***************************************************************************)
(* Model of src/app.py of Backend-ScholAuxil: the repository / paper store *)
(* (SQLite through Flask-SQLAlchemy), the upload folder on disk, and the   *)
(* request handlers that act on them.                                      *)
(*                                                                         *)
(* Strings are sequences of tokens (a token is a run of characters without *)
(* separators, or one separator character); a path is a sequence of        *)
(* segments, a segment is a string.                                        *)
(***************************************************************************)
EXTENDS Integers, Sequences, FiniteSets, TLC

VARIABLES repos, papers, files, dirs, now, pc, req, resp, sent

vars == <<repos, papers, files, dirs, now, pc, req, resp, sent>>

(***************************************************************************)
(* Bounds of the model                                                     *)
(***************************************************************************)
MaxRepos == 2
MaxPapers == 2
MaxClock == 3
MaxPathLen == 2

\* two requests can be in flight at once (a threaded server)
Workers == {1, 2}
Users == {"U1", "U2"}

(***************************************************************************)
(* Strings                                                                 *)
(***************************************************************************)
Last(s) == s[Len(s)]
Front(s) == SubSeq(s, 1, Len(s) - 1)

Digits == <<"0", "1", "2", "3", "4", "5", "6", "7", "8", "9">>

\* str(n) for a small non-negative integer
Str(n) == <<Digits[n + 1]>>

\* str.lower() on one token
LowerTok(t) == IF t = "PDF" THEN "pdf" ELSE t

RECURSIVE LStrip(_, _)
LStrip(s, cs) == IF s # <<>> /\ s[1] \in cs THEN LStrip(Tail(s), cs) ELSE s

RECURSIVE RStrip(_, _)
RStrip(s, cs) == IF s # <<>> /\ Last(s) \in cs THEN RStrip(Front(s), cs) ELSE s

\* str.strip(): removes leading and trailing whitespace
Strip(s) == RStrip(LStrip(s, {" "}), {" "})

\* index of the last occurrence of token c in s, 0 when absent
LastIndex(s, c) ==
    LET I == {i \in 1..Len(s) : s[i] = c}
    IN IF I = {} THEN 0 ELSE CHOOSE i \in I : \A j \in I : j <= i

\* filename.rsplit('.', 1): the part after the last dot
AfterLastDot(s) == SubSeq(s, LastIndex(s, ".") + 1, Len(s))

ALLOWED_EXTENSIONS == {<<"pdf">>, <<"txt">>, <<"doc">>, <<"docx">>}

Lower(s) == [i \in 1..Len(s) |-> LowerTok(s[i])]

\* a check that asks for a dot only
has_dot(filename) == LastIndex(filename, ".") # 0

allowed_file(filename) ==
    /\ LastIndex(filename, ".") # 0
    /\ Lower(AfterLastDot(filename)) \in ALLOWED_EXTENSIONS

\* werkzeug.utils.secure_filename: path separators become spaces, runs of
\* whitespace are joined by "_", then leading and trailing "." and "_" go
SepToUnderscore(s) == [i \in 1..Len(s) |-> IF s[i] \in {"/", " "} THEN "_" ELSE s[i]]

secure_filename(filename) ==
    LET t == SepToUnderscore(Strip([i \in 1..Len(filename) |->
                 IF filename[i] = "/" THEN " " ELSE filename[i]]))
    IN RStrip(LStrip(t, {".", "_"}), {".", "_"})

\* os.path.splitext(filename)[0]
splitext0(filename) ==
    LET d == LastIndex(filename, ".")
        s == LastIndex(filename, "/")
        lead == {i \in (s + 1)..Len(filename) :
                    \A j \in (s + 1)..i : filename[j] = "."}
    IN IF d > s /\ d \notin lead THEN SubSeq(filename, 1, d - 1) ELSE filename

(***************************************************************************)
(* The file system                                                         *)
(***************************************************************************)
DotDot == <<".", ".">>
BASE_DIR == << <<"srv">> >>
UPLOAD_FOLDER == BASE_DIR \o << <<"uploads">> >>
INSTANCE_DIR == BASE_DIR \o << <<"instance">> >>
APP_PY == BASE_DIR \o << <<"app", ".", "py">> >>
DB_FILE == INSTANCE_DIR \o << <<"research_repo", ".", "db">> >>

Invalid == << <<"?">> >>

\* the kernel's path walk: ".." goes to the parent, a name enters a directory
RECURSIVE Walk(_, _)
Walk(cur, rest) ==
    IF rest = <<>> THEN cur
    ELSE IF cur \notin dirs THEN Invalid
    ELSE IF rest[1] = DotDot
         THEN Walk(IF cur = <<>> THEN <<>> ELSE Front(cur), Tail(rest))
         ELSE Walk(Append(cur, rest[1]), Tail(rest))

isfile(p) == Walk(<<>>, p) \in DOMAIN files
ReadFile(p) == files[Walk(<<>>, p)]

InsideRoot(p) ==
    /\ Len(p) > Len(UPLOAD_FOLDER)
    /\ SubSeq(p, 1, Len(UPLOAD_FOLDER)) = UPLOAD_FOLDER

\* werkzeug.security.safe_join(directory, filename) for one path name:
\* Invalid stands for None
safe_join(directory, filename) ==
    IF filename = DotDot \/ "/" \in {filename[i] : i \in 1..Len(filename)}
    THEN Invalid
    ELSE Append(directory, filename)

(***************************************************************************)
(* The metadata store                                                      *)
(***************************************************************************)
MaxOf(S) == CHOOSE x \in S : \A y \in S : y <= x

\* SQLite INTEGER PRIMARY KEY without AUTOINCREMENT: largest rowid plus one
NextId(rows) == IF rows = {} THEN 1 ELSE MaxOf({r.id : r \in rows}) + 1

\* Repository(name=..., user_id=...) added and committed
Repository(name, user_id) ==
    [id |-> NextId(repos), name |-> name, created_at |-> now, user_id |-> user_id]

\* Paper(title=..., original_filename=..., filepath=..., repository_id=...)
Paper(title, original_filename, filepath, repository_id) ==
    [id |-> NextId(papers), title |-> title,
     original_filename |-> original_filename, filepath |-> filepath,
     notes |-> <<>>, last_opened |-> <<>>, last_page_seen |-> <<0>>,
     uploaded_at |-> now, repository_id |-> repository_id]

\* Repository.papers: the rows whose foreign key is the repository
PapersOf(repo_id) == {q \in papers : q.repository_id = repo_id}

\* db.session.delete(repo); db.session.commit() with
\* cascade="all, delete-orphan" on Repository.papers
CascadeDelete(r) ==
    /\ repos' = repos \ {r}
    /\ papers' = papers \ PapersOf(r.id)
    /\ sent' = [i \in DOMAIN sent \ {q.id : q \in PapersOf(r.id)} |-> sent[i]]

NoReq == [op |-> "none"]
NoResp == [status |-> 0]

Reply(p, r) ==
    /\ pc' = [pc EXCEPT ![p] = "done"]
    /\ resp' = [resp EXCEPT ![p] = r]

Status(n) == [status |-> n]

\* the clock of datetime.now() and datetime.utcnow(): a database commit or
\* a file write takes longer than the resolution of the clock, so a request
\* that starts after one of them reads a later time, while two requests
\* in flight may read the same time
TimePasses == now' = IF now < MaxClock THEN now + 1 ELSE now

Init ==
    /\ repos = {}
    /\ papers = {}
    /\ files = (APP_PY :> "SRC") @@ (DB_FILE :> "DB")
    /\ dirs = {<<>>, BASE_DIR, UPLOAD_FOLDER, INSTANCE_DIR}
    /\ now = 0
    /\ pc = [p \in Workers |-> "idle"]
    /\ req = [p \in Workers |-> NoReq]
    /\ resp = [p \in Workers |-> NoResp]
    /\ sent = <<>>

(***************************************************************************)
(* GET /api/repositories                                                   *)
(***************************************************************************)
\* a query that returns the repositories of every user
all_repositories(user_id) == repos

\* Repository.query.filter_by(user_id=user_id)
repositories_of(user_id) == {r \in repos : r.user_id = user_id}

\* .order_by(Repository.created_at.desc()).all(): the rows in some order in
\* which no row comes before a row created later
order_by_created_at_desc(rows) ==
    {s \in [1..Cardinality(rows) -> rows] :
        /\ \A i, j \in DOMAIN s : i # j => s[i] # s[j]
        /\ \A i, j \in DOMAIN s : i < j => s[i].created_at >= s[j].created_at}

\* Repository.to_dict, the list of papers taken as a set
to_dict(r) ==
    [id |-> r.id, name |-> r.name, created_at |-> r.created_at,
     user_id |-> r.user_id, papers |-> PapersOf(r.id)]

get_repositories(p, user) ==
    /\ pc[p] = "idle"
    /\ req' = [req EXCEPT ![p] = [op |-> "get_repositories", user |-> user]]
    /\ \E repositories \in order_by_created_at_desc(repositories_of(user)) :
           Reply(p, [status |-> 200,
                     body |-> [i \in DOMAIN repositories |->
                                  to_dict(repositories[i])]])
    /\ UNCHANGED <<repos, papers, files, dirs, now, sent>>

(***************************************************************************)
(* POST /api/repository/new                                                *)
(***************************************************************************)
RepoNameInputs == {<<"T">>, <<" ", "T">>, <<"S">>, <<" ">>}

\* a query that forgets the owner
existing_repo_of_anyone(repo_name, user_id) == {r \in repos : r.name = repo_name}

\* Repository.query.filter_by(name=repo_name, user_id=user_id)
existing_repo(repo_name, user_id) ==
    {r \in repos : r.name = repo_name /\ r.user_id = user_id}

\* up to the query for an existing repository
create_repository_check(p, user, is_json, name) ==
    /\ pc[p] = "idle"
    /\ req' = [req EXCEPT ![p] =
                  [op |-> "create_repository", user |-> user,
                   is_json |-> is_json, name |-> name]]
    /\ LET repo_name == Strip(name)
       IN IF ~is_json \/ repo_name = <<>>
          THEN Reply(p, Status(400))
          ELSE IF existing_repo(repo_name, user) # {}
          THEN Reply(p, Status(409))
          ELSE /\ Cardinality(repos) < MaxRepos
               /\ now < MaxClock
               /\ pc' = [pc EXCEPT ![p] = "create_insert"]
               /\ UNCHANGED resp
    /\ UNCHANGED <<repos, papers, files, dirs, now, sent>>

\* db.session.add(new_repo); db.session.commit()
create_repository_insert(p) ==
    /\ pc[p] = "create_insert"
    /\ repos' = repos \cup {Repository(Strip(req[p].name), req[p].user)}
    /\ Reply(p, Status(201))
    /\ TimePasses
    /\ UNCHANGED <<papers, files, dirs, req, sent>>

(***************************************************************************)
(* DELETE /api/repository/<id>  and  POST|DELETE /api/repository/<id>/delete *)
(***************************************************************************)
RepoIds == 1..(MaxRepos + 1)

delete_repository(p, user, repo_id) ==
    /\ pc[p] = "idle"
    /\ req' = [req EXCEPT ![p] =
                  [op |-> "delete_repository", user |-> user, repo_id |-> repo_id]]
    /\ IF \A r \in repos : r.id # repo_id
       THEN Reply(p, Status(404)) /\ UNCHANGED <<repos, papers, sent>>
       ELSE LET repo == CHOOSE r \in repos : r.id = repo_id
            IN IF repo.user_id # user
               THEN Reply(p, Status(403)) /\ UNCHANGED <<repos, papers, sent>>
               ELSE CascadeDelete(repo) /\ Reply(p, Status(200))
    /\ UNCHANGED <<files, dirs, now>>

api_delete_repository(p, user, repo_id) ==
    /\ pc[p] = "idle"
    /\ req' = [req EXCEPT ![p] =
                  [op |-> "api_delete_repository", user |-> user, repo_id |-> repo_id]]
    /\ IF \A r \in repos : r.id # repo_id
       THEN Reply(p, Status(404)) /\ UNCHANGED <<repos, papers, sent>>
       ELSE LET repo == CHOOSE r \in repos : r.id = repo_id
            IN CascadeDelete(repo) /\ Reply(p, Status(200))
    /\ UNCHANGED <<files, dirs, now>>

(***************************************************************************)
(* POST /api/paper/upload/<id>  and  POST /api/repository/<id>/papers      *)
(***************************************************************************)
Bytes == {"b1", "b2"}

UploadNames ==
    {<<>>, <<"a", ".", "pdf">>, <<".", ".", "/", "a", ".", "pdf">>, <<"a", ".", "png">>}

UploadFiles ==
    {[present |-> FALSE, filename |-> <<>>, data |-> "b1"]} \cup
    {[present |-> TRUE, filename |-> n, data |-> b] : n \in UploadNames, b \in Bytes}

TitleInputs == {<<>>, <<"P">>}

\* datetime.now().strftime("%Y%m%d%H%M%S%f")
Timestamp == Str(now)

\* up to the computation of the stored file name
api_upload_paper_begin(p, user, repo_id, file, form_title) ==
    /\ pc[p] = "idle"
    /\ LET title == IF Strip(form_title) = <<>>
                    THEN splitext0(file.filename) ELSE Strip(form_title)
           original_filename == secure_filename(file.filename)
           filename == Timestamp \o <<"_">> \o original_filename
           r == [op |-> "api_upload_paper", user |-> user, repo_id |-> repo_id,
                 file |-> file, title |-> title,
                 original_filename |-> original_filename, filename |-> filename]
       IN /\ req' = [req EXCEPT ![p] = r]
          /\ IF \A x \in repos : x.id # repo_id
             THEN Reply(p, Status(404))
             ELSE IF ~file.present \/ file.filename = <<>>
                     \/ ~allowed_file(file.filename)
             THEN Reply(p, Status(400))
             ELSE /\ Cardinality(papers) < MaxPapers
                  /\ now < MaxClock
                  /\ pc' = [pc EXCEPT ![p] = "upload_save"]
                  /\ UNCHANGED resp
    /\ UNCHANGED <<repos, papers, files, dirs, now, sent>>

SaveOutcomes == {"ok", "fail"}

\* os.makedirs(filepath, exist_ok=True); file.save(os.path.join(filepath, filename))
api_upload_paper_save(p, outcome) ==
    /\ pc[p] = "upload_save"
    /\ LET filepath == Append(UPLOAD_FOLDER, Str(req[p].repo_id))
           target == Append(filepath, req[p].filename)
       IN IF filepath \in DOMAIN files \/ target \in dirs \/ outcome = "fail"
          THEN Reply(p, Status(500)) /\ UNCHANGED <<files, dirs>>
          ELSE /\ dirs' = dirs \cup {filepath}
               /\ files' = (target :> req[p].file.data) @@ files
               /\ pc' = [pc EXCEPT ![p] = "upload_commit"]
               /\ UNCHANGED resp
    /\ TimePasses
    /\ UNCHANGED <<repos, papers, req, sent>>

\* db.session.add(new_paper); db.session.commit(), or the rollback of the
\* except branch; Paper.filepath is unique
api_upload_paper_commit(p, db_ok) ==
    /\ pc[p] = "upload_commit"
    /\ LET new_paper == Paper(req[p].title, req[p].original_filename,
                              <<Str(req[p].repo_id), req[p].filename>>,
                              req[p].repo_id)
       IN IF db_ok /\ \A q \in papers : q.filepath # new_paper.filepath
          THEN /\ papers' = papers \cup {new_paper}
               /\ sent' = (new_paper.id :> req[p].file.data) @@ sent
               /\ Reply(p, [status |-> 201, paper |-> new_paper])
          ELSE /\ Reply(p, Status(500))
               /\ UNCHANGED <<papers, sent>>
    /\ UNCHANGED <<repos, files, dirs, now, req>>

(***************************************************************************)
(* GET|PUT|POST /api/paper/<id>                                            *)
(***************************************************************************)
PaperIds == 1..(MaxPapers + 1)

JsonValues ==
    {[t |-> "absent", v |-> <<>>], [t |-> "null", v |-> <<>>],
     [t |-> "num", v |-> <<"3">>], [t |-> "str", v |-> <<"7">>],
     [t |-> "str", v |-> <<"a", "b", "c">>], [t |-> "list", v |-> <<"1">>]}

NotesInputs == {[t |-> "absent", v |-> <<>>], [t |-> "str", v |-> <<"N1">>]}

IsDigit(tok) == \E d \in 1..10 : Digits[d] = tok
DigitVal(tok) == (CHOOSE d \in 1..10 : Digits[d] = tok) - 1

RECURSIVE DecimalVal(_)
DecimalVal(s) == IF s = <<>> THEN 0 ELSE 10 * DecimalVal(Front(s)) + DigitVal(Last(s))

\* int(x) of a JSON value: the result, or the exception it raises
int(j) ==
    IF j.t = "num" THEN [raises |-> "none", val |-> DecimalVal(j.v)]
    ELSE IF j.t = "str"
    THEN IF j.v # <<>> /\ \A i \in 1..Len(j.v) : IsDigit(j.v[i])
         THEN [raises |-> "none", val |-> DecimalVal(j.v)]
         ELSE [raises |-> "ValueError", val |-> 0]
    ELSE [raises |-> "TypeError", val |-> 0]

\* the scoped session is removed when the request ends: what was not
\* committed is rolled back
SessionRemoved(committed, pending) == committed

api_paper_detail(p, user, method, paper_id, notes, last_page_seen) ==
    /\ pc[p] = "idle"
    /\ req' = [req EXCEPT ![p] =
                  [op |-> "api_paper_detail", user |-> user, method |-> method,
                   paper_id |-> paper_id, notes |-> notes,
                   last_page_seen |-> last_page_seen]]
    /\ IF \A q \in papers : q.id # paper_id
       THEN Reply(p, Status(404)) /\ UNCHANGED <<papers, now>>
       ELSE LET paper == CHOOSE q \in papers : q.id = paper_id
                others == papers \ {paper}
            IN IF method = "GET"
               THEN LET opened == [paper EXCEPT !.last_opened = <<now>>]
                    IN /\ now < MaxClock
                       /\ papers' = others \cup {opened}
                       /\ Reply(p, [status |-> 200, paper |-> opened])
                       /\ TimePasses
               ELSE IF method = "PUT"
               THEN LET noted == IF notes.t = "absent" THEN paper
                                 ELSE [paper EXCEPT !.notes = notes.v]
                        n == int(last_page_seen)
                    IN /\ UNCHANGED now
                       /\ IF last_page_seen.t \in {"absent", "null"}
                          THEN LET paged == IF last_page_seen.t = "absent" THEN noted
                                            ELSE [noted EXCEPT !.last_page_seen = <<>>]
                               IN /\ papers' = others \cup {paged}
                                  /\ Reply(p, [status |-> 200, paper |-> paged])
                          ELSE IF n.raises = "none"
                          THEN LET paged == [noted EXCEPT !.last_page_seen = <<n.val>>]
                               IN /\ papers' = others \cup {paged}
                                  /\ Reply(p, [status |-> 200, paper |-> paged])
                          ELSE /\ papers' = SessionRemoved(papers, others \cup {noted})
                               /\ Reply(p, Status(IF n.raises = "ValueError"
                                                   THEN 400 ELSE 500))
               ELSE \* POST: the view returns nothing
                    Reply(p, Status(500)) /\ UNCHANGED <<papers, now>>
    /\ UNCHANGED <<repos, files, dirs, sent>>

(***************************************************************************)
(* DELETE|POST /api/paper/<id>/delete                                      *)
(***************************************************************************)
\* a deletion that leaves the file where it is
keep_file(full_filepath) == UNCHANGED files

\* if os.path.exists(full_filepath): os.remove(full_filepath)
remove_if_exists(full_filepath) ==
    files' = [f \in DOMAIN files \ {full_filepath} |-> files[f]]

\* req.existed is what os.path.exists(full_filepath) answered
api_delete_paper(p, user, paper_id, db_ok) ==
    /\ pc[p] = "idle"
    /\ IF \A q \in papers : q.id # paper_id
       THEN /\ req' = [req EXCEPT ![p] =
                         [op |-> "api_delete_paper", user |-> user,
                          paper_id |-> paper_id, db_ok |-> db_ok,
                          existed |-> FALSE]]
            /\ Reply(p, Status(404)) /\ UNCHANGED <<papers, files, sent>>
       ELSE LET paper == CHOOSE q \in papers : q.id = paper_id
                full_filepath == UPLOAD_FOLDER \o paper.filepath
            IN /\ req' = [req EXCEPT ![p] =
                            [op |-> "api_delete_paper", user |-> user,
                             paper_id |-> paper_id, db_ok |-> db_ok,
                             existed |-> isfile(full_filepath)]]
               /\ remove_if_exists(full_filepath)
               /\ IF db_ok
                  THEN /\ papers' = papers \ {paper}
                       /\ sent' = [i \in DOMAIN sent \ {paper.id} |-> sent[i]]
                       /\ Reply(p, Status(200))
                  ELSE /\ Reply(p, Status(500))
                       /\ UNCHANGED <<papers, sent>>
    /\ UNCHANGED <<repos, dirs, now>>

(***************************************************************************)
(* GET /api/uploads/<path:filepath>                                        *)
(***************************************************************************)
SeqsUpTo(S, n) == UNION {[1..k -> S] : k \in 1..n}

\* the path names a client may put in a request path
RequestSegments ==
    {DotDot, Last(APP_PY)} \cup {Last(f) : f \in DOMAIN files}
        \cup {Str(i) : i \in RepoIds}

api_serve_paper(p, filepath) ==
    /\ pc[p] = "idle"
    /\ req' = [req EXCEPT ![p] = [op |-> "api_serve_paper", filepath |-> filepath]]
    /\ LET repo_subfolder == Front(filepath)
           filename == Last(filepath)
           directory == UPLOAD_FOLDER \o repo_subfolder
           path == safe_join(directory, filename)
       IN IF path = Invalid \/ ~isfile(path)
          THEN Reply(p, Status(404))
          ELSE Reply(p, [status |-> 200, body |-> ReadFile(path),
                         served |-> Walk(<<>>, path)])
    /\ UNCHANGED <<repos, papers, files, dirs, now, sent>>

(***************************************************************************)
(* Text extraction: POST /api/upload and POST /api/chat                    *)
(***************************************************************************)
ExtractNames ==
    {<<>>, <<"a", ".", "pdf">>, <<"d", ".", "docx">>, <<"n", ".", "txt">>,
     <<"i", ".", "png">>, <<".", "pdf">>, <<"x">>}

Corrupt == "corrupt"

ExtractFiles ==
    {[present |-> FALSE, filename |-> <<>>, data |-> "b1"]} \cup
    {[present |-> TRUE, filename |-> n, data |-> b] :
        n \in ExtractNames, b \in {"b1", Corrupt}}

IMAGE_EXTENSIONS == {<<"png">>, <<"jpg">>, <<"jpeg">>}

\* extract_text_from_pdf, extract_text_from_docx, extract_text_from_image
\* of utils.file_extractor on the file at path: the text, or an exception
\* on a missing or malformed file
extract_text(path) ==
    IF ~isfile(path) \/ ReadFile(path) = Corrupt
    THEN [raises |-> TRUE, text |-> <<>>]
    ELSE [raises |-> FALSE, text |-> <<"text of", ReadFile(path)>>]

\* the strategy the extension selects, "none" when there is none
strategy(file_ext) ==
    IF file_ext = <<"pdf">> THEN "pdf"
    ELSE IF file_ext = <<"docx">> THEN "docx"
    ELSE IF file_ext \in IMAGE_EXTENSIONS THEN "image"
    ELSE "none"

Remove(path) == files' = [f \in DOMAIN files \ {path} |-> files[f]]

\* up to file.save(filepath)
upload_file_save(p, file) ==
    /\ pc[p] = "idle"
    /\ LET filename == secure_filename(file.filename)
           filepath == Append(UPLOAD_FOLDER, filename)
           r == [op |-> "upload_file", file |-> file, filename |-> filename,
                 filepath |-> filepath, invoked |-> "none", text |-> <<>>]
       IN /\ req' = [req EXCEPT ![p] = r]
          /\ IF ~file.present \/ file.filename = <<>> \/ ~allowed_file(file.filename)
             THEN Reply(p, Status(400)) /\ UNCHANGED files
             ELSE IF filepath \in dirs
             THEN Reply(p, Status(500)) /\ UNCHANGED files
             ELSE /\ files' = (filepath :> file.data) @@ files
                  /\ pc' = [pc EXCEPT ![p] = "upload_extract"]
                  /\ UNCHANGED resp
    /\ UNCHANGED <<repos, papers, dirs, now, sent>>

\* the split of the extension (an IndexError when the stored name has no
\* dot) and the dispatch on file_ext inside the try block; req.invoked
\* records the strategy that was called
upload_file_extract(p) ==
    /\ pc[p] = "upload_extract"
    /\ IF LastIndex(req[p].filename, ".") = 0
       THEN Reply(p, Status(500)) /\ UNCHANGED req
       ELSE IF strategy(Lower(AfterLastDot(req[p].filename))) = "none"
       THEN Reply(p, Status(400)) /\ UNCHANGED req
       ELSE LET s == strategy(Lower(AfterLastDot(req[p].filename)))
                e == extract_text(req[p].filepath)
            IN /\ req' = [req EXCEPT ![p].invoked = s, ![p].text = e.text]
               /\ IF e.raises
                  THEN Reply(p, Status(500))
                  ELSE /\ pc' = [pc EXCEPT ![p] = "upload_remove"]
                       /\ UNCHANGED resp
    /\ UNCHANGED <<repos, papers, files, dirs, now, sent>>

\* os.remove(filepath) and the answer
upload_file_remove(p) ==
    /\ pc[p] = "upload_remove"
    /\ IF req[p].filepath \in DOMAIN files
       THEN /\ Remove(req[p].filepath)
            /\ Reply(p, [status |-> 200, extractedText |-> req[p].text])
       ELSE Reply(p, Status(500)) /\ UNCHANGED files
    /\ UNCHANGED <<repos, papers, dirs, now, req, sent>>

QuestionInputs == {<<>>, <<"Q">>}

\* the image part of chat: uploaded_image.save(img_path), or straight to
\* the completion call when there is no image
chat_image_save(p, r) ==
    IF r.image.present /\ r.image.filename # <<>>
    THEN IF r.img_path \in dirs
         THEN Reply(p, Status(500)) /\ UNCHANGED files
         ELSE /\ files' = (r.img_path :> r.image.data) @@ files
              /\ pc' = [pc EXCEPT ![p] = "chat_image_extract"]
              /\ UNCHANGED resp
    ELSE /\ pc' = [pc EXCEPT ![p] = "chat_call"]
         /\ UNCHANGED <<files, resp>>

\* up to uploaded_file.save(filepath)
chat_save(p, question, file, image) ==
    /\ pc[p] = "idle"
    /\ LET r == [op |-> "chat", file |-> file, image |-> image,
                 filepath |-> Append(UPLOAD_FOLDER, secure_filename(file.filename)),
                 img_path |-> Append(UPLOAD_FOLDER, secure_filename(image.filename)),
                 file_ext |-> Lower(AfterLastDot(file.filename)),
                 final_prompt |-> question]
       IN /\ req' = [req EXCEPT ![p] = r]
          /\ IF file.present /\ file.filename # <<>>
             THEN IF LastIndex(file.filename, ".") = 0 \/ r.filepath \in dirs
                  THEN Reply(p, Status(500)) /\ UNCHANGED files
                  ELSE /\ files' = (r.filepath :> file.data) @@ files
                       /\ pc' = [pc EXCEPT ![p] = "chat_file_extract"]
                       /\ UNCHANGED resp
             ELSE chat_image_save(p, r)
    /\ UNCHANGED <<repos, papers, dirs, now, sent>>

chat_file_extract(p) ==
    /\ pc[p] = "chat_file_extract"
    /\ LET e == extract_text(req[p].filepath)
       IN IF strategy(req[p].file_ext) = "none"
          THEN pc' = [pc EXCEPT ![p] = "chat_file_remove"] /\ UNCHANGED <<req, resp>>
          ELSE IF e.raises
          THEN Reply(p, Status(500)) /\ UNCHANGED req
          ELSE /\ req' = [req EXCEPT ![p].final_prompt = @ \o e.text]
               /\ pc' = [pc EXCEPT ![p] = "chat_file_remove"]
               /\ UNCHANGED resp
    /\ UNCHANGED <<repos, papers, files, dirs, now, sent>>

\* os.remove(filepath), then the image part
chat_file_remove(p) ==
    /\ pc[p] = "chat_file_remove"
    /\ IF req[p].filepath \notin DOMAIN files
       THEN Reply(p, Status(500)) /\ UNCHANGED files
       ELSE IF req[p].image.present /\ req[p].image.filename # <<>>
       THEN IF req[p].img_path \in dirs
            THEN Remove(req[p].filepath) /\ Reply(p, Status(500))
            ELSE /\ files' = (req[p].img_path :> req[p].image.data) @@
                                [f \in DOMAIN files \ {req[p].filepath} |-> files[f]]
                 /\ pc' = [pc EXCEPT ![p] = "chat_image_extract"]
                 /\ UNCHANGED resp
       ELSE /\ Remove(req[p].filepath)
            /\ pc' = [pc EXCEPT ![p] = "chat_call"]
            /\ UNCHANGED resp
    /\ UNCHANGED <<repos, papers, dirs, now, req, sent>>

chat_image_extract(p) ==
    /\ pc[p] = "chat_image_extract"
    /\ LET e == extract_text(req[p].img_path)
       IN IF e.raises
          THEN Reply(p, Status(500)) /\ UNCHANGED req
          ELSE /\ req' = [req EXCEPT ![p].final_prompt = @ \o e.text]
               /\ pc' = [pc EXCEPT ![p] = "chat_image_remove"]
               /\ UNCHANGED resp
    /\ UNCHANGED <<repos, papers, files, dirs, now, sent>>

chat_image_remove(p) ==
    /\ pc[p] = "chat_image_remove"
    /\ IF req[p].img_path \in DOMAIN files
       THEN Remove(req[p].img_path)
            /\ pc' = [pc EXCEPT ![p] = "chat_call"] /\ UNCHANGED resp
       ELSE Reply(p, Status(500)) /\ UNCHANGED files
    /\ UNCHANGED <<repos, papers, dirs, now, req, sent>>

CompletionStatuses == {200, 429}

\* the empty-prompt check and the completion request to OpenRouter
chat_call(p, status_code) ==
    /\ pc[p] = "chat_call"
    /\ IF Strip(req[p].final_prompt) = <<>>
       THEN Reply(p, Status(400))
       ELSE Reply(p, [status |-> status_code, prompt |-> req[p].final_prompt])
    /\ UNCHANGED <<repos, papers, files, dirs, now, req, sent>>

\* the response has been returned to the client
Respond(p) ==
    /\ pc[p] = "done"
    /\ pc' = [pc EXCEPT ![p] = "idle"]
    /\ req' = [req EXCEPT ![p] = NoReq]
    /\ resp' = [resp EXCEPT ![p] = NoResp]
    /\ UNCHANGED <<repos, papers, files, dirs, now, sent>>

(***************************************************************************)
(* Specifications                                                          *)
(***************************************************************************)
Methods == {"GET", "PUT", "POST"}

CreateRepoIn(p, users, names) ==
    \/ \E u \in users, j \in BOOLEAN, n \in names :
           create_repository_check(p, u, j, n)
    \/ create_repository_insert(p)

CreateRepo(p) == CreateRepoIn(p, Users, RepoNameInputs)

\* the repositories papers are uploaded to
SetUpRepo(p) == CreateRepoIn(p, Users, {<<"T">>})

ListRepos(p) == \E u \in Users : get_repositories(p, u)

DeleteRepo(p) ==
    \/ \E u \in Users, i \in RepoIds : delete_repository(p, u, i)
    \/ \E u \in Users, i \in RepoIds : api_delete_repository(p, u, i)

\* an upload on which neither the disk nor the database fails
UploadIn(p, users, uploads, titles) ==
    \/ \E u \in users, i \in RepoIds, f \in uploads, t \in titles :
           api_upload_paper_begin(p, u, i, f, t)
    \/ api_upload_paper_save(p, "ok")
    \/ api_upload_paper_commit(p, TRUE)

Upload(p) == UploadIn(p, Users, UploadFiles, TitleInputs)

\* uploads that are to be refused, among ones that are not
RejectNames ==
    UploadNames \cup {<<"a">>, <<"a", ".">>, <<"a", ".", "PDF">>, <<"n", ".", "txt">>}

RejectFiles ==
    {[present |-> FALSE, filename |-> <<>>, data |-> "b1"]} \cup
    {[present |-> TRUE, filename |-> n, data |-> "b1"] : n \in RejectNames}

UploadOrReject(p) == UploadIn(p, Users, RejectFiles, TitleInputs)

\* the papers other requests act on
SetUpPaper(p) ==
    UploadIn(p, {"U1"}, {f \in UploadFiles : f.filename = <<"a", ".", "pdf">>}, {<<>>})

\* an upload by any user into any repository
UploadByAnyone(p) ==
    UploadIn(p, Users,
             {f \in UploadFiles : f.filename = <<"a", ".", "pdf">> /\ f.data = "b1"},
             {<<>>})

\* an upload on which the disk or the database may fail
UploadFaulty(p) ==
    \/ \E u \in Users, i \in RepoIds, f \in UploadFiles, t \in TitleInputs :
           api_upload_paper_begin(p, u, i, f, t)
    \/ \E o \in SaveOutcomes : api_upload_paper_save(p, o)
    \/ \E ok \in BOOLEAN : api_upload_paper_commit(p, ok)

PaperDetail(p) ==
    \E u \in Users, m \in Methods, i \in PaperIds, n \in NotesInputs,
       l \in JsonValues : api_paper_detail(p, u, m, i, n, l)

GetPaper(p) ==
    \E u \in Users, i \in PaperIds :
        api_paper_detail(p, u, "GET", i, [t |-> "absent", v |-> <<>>],
                         [t |-> "absent", v |-> <<>>])

DeletePaper(p) ==
    \E u \in Users, i \in PaperIds, ok \in BOOLEAN : api_delete_paper(p, u, i, ok)

ServeAny(p) ==
    \E f \in SeqsUpTo(RequestSegments, MaxPathLen) : api_serve_paper(p, f)

ServeStored(p) ==
    \E q \in papers : api_serve_paper(p, q.filepath)

\* repository requests, one at a time
ReposNext == CreateRepo(1) \/ DeleteRepo(1) \/ Respond(1)
SpecRepos == Init /\ [][ReposNext]_vars

\* repository requests of two workers interleaved
RaceNext == \E p \in Workers : CreateRepo(p) \/ DeleteRepo(p) \/ Respond(p)
SpecRace == Init /\ [][RaceNext]_vars

\* repositories with papers, one request at a time
CascadeNext == SetUpRepo(1) \/ SetUpPaper(1) \/ DeleteRepo(1) \/ Respond(1)
SpecCascade == Init /\ [][CascadeNext]_vars

\* uploads with failing disk or database, one request at a time
FaultsNext == SetUpRepo(1) \/ UploadFaulty(1) \/ Respond(1)
SpecFaults == Init /\ [][FaultsNext]_vars

\* uploads and file fetches, one request at a time
ServeNext == SetUpRepo(1) \/ SetUpPaper(1) \/ ServeAny(1) \/ Respond(1)
SpecServe == Init /\ [][ServeNext]_vars

\* uploads and file fetches of two workers interleaved
UploadRaceNext ==
    \E p \in Workers : SetUpRepo(p) \/ SetUpPaper(p) \/ ServeStored(p) \/ Respond(p)
SpecUploadRace == Init /\ [][UploadRaceNext]_vars

\* paper deletions, one request at a time
PapersNext ==
    SetUpRepo(1) \/ SetUpPaper(1) \/ DeletePaper(1) \/ GetPaper(1) \/ Respond(1)
SpecPapers == Init /\ [][PapersNext]_vars

\* paper reads and updates, one request at a time
DetailNext == SetUpRepo(1) \/ SetUpPaper(1) \/ PaperDetail(1) \/ Respond(1)
SpecDetail == Init /\ [][DetailNext]_vars

UploadFile(p) ==
    \/ \E f \in ExtractFiles : upload_file_save(p, f)
    \/ upload_file_extract(p)
    \/ upload_file_remove(p)

Chat(p) ==
    \/ \E q \in QuestionInputs, f \in ExtractFiles, i \in ExtractFiles :
           chat_save(p, q, f, i)
    \/ chat_file_extract(p)
    \/ chat_file_remove(p)
    \/ chat_image_extract(p)
    \/ chat_image_remove(p)
    \/ \E c \in CompletionStatuses : chat_call(p, c)

\* extraction requests, one at a time
ExtractNext == UploadFile(1) \/ Chat(1) \/ Respond(1)
SpecExtract == Init /\ [][ExtractNext]_vars

\* uploads racing repository deletions, two requests in flight
OrphanNext ==
    \E p \in Workers :
        SetUpRepo(p) \/ SetUpPaper(p) \/ DeleteRepo(p) \/ Respond(p)
SpecOrphan == Init /\ [][OrphanNext]_vars

\* uploads of every kind, one request at a time
RejectNext == SetUpRepo(1) \/ UploadOrReject(1) \/ Respond(1)
SpecReject == Init /\ [][RejectNext]_vars

\* listings after creations, uploads and deletions, one request at a time
ListNext ==
    \/ CreateRepo(1) \/ SetUpPaper(1) \/ DeleteRepo(1) \/ DeletePaper(1)
    \/ ListRepos(1) \/ Respond(1)
SpecList == Init /\ [][ListNext]_vars

\* readable uploads under one name with different contents
RaceFiles ==
    {[present |-> TRUE, filename |-> <<"a", ".", "pdf">>, data |-> b] : b \in Bytes}

RaceImages ==
    {[present |-> FALSE, filename |-> <<>>, data |-> "b1"],
     [present |-> TRUE, filename |-> <<"i", ".", "png">>, data |-> "b1"]}

RaceUploadFile(p) ==
    \/ \E f \in RaceFiles : upload_file_save(p, f)
    \/ upload_file_extract(p)
    \/ upload_file_remove(p)

RaceChat(p) ==
    \/ \E f \in RaceFiles, i \in RaceImages : chat_save(p, <<"Q">>, f, i)
    \/ chat_file_extract(p)
    \/ chat_file_remove(p)
    \/ chat_image_extract(p)
    \/ chat_image_remove(p)
    \/ \E c \in CompletionStatuses : chat_call(p, c)

\* extraction requests, two in flight
ExtractRaceNext ==
    \E p \in Workers : RaceUploadFile(p) \/ RaceChat(p) \/ Respond(p)
SpecExtractRace == Init /\ [][ExtractRaceNext]_vars

\* paper requests of every user on every repository, one at a time
IsolationNext ==
    \/ SetUpRepo(1) \/ UploadByAnyone(1) \/ PaperDetail(1) \/ DeletePaper(1)
    \/ Respond(1)
SpecIsolation == Init /\ [][IsolationNext]_vars

(***************************************************************************)
(* Properties                                                              *)
(***************************************************************************)
Began(p, op) == pc[p] = "idle" /\ pc'[p] # "idle" /\ req'[p].op = op

NoDuplicateNames ==
    \A r1, r2 \in repos :
        r1.name = r2.name /\ r1.user_id = r2.user_id => r1 = r2

ValidCreate(r) == r.is_json /\ Strip(r.name) # <<>>

\* one create-repository request, run alone: a Conflict that adds nothing
\* when the caller already owns a repository of that name, one new
\* repository of that name and owner otherwise
CreateOutcome(p) ==
    /\ Began(p, "create_repository") /\ ValidCreate(req'[p]) =>
          LET mine == {r \in repos : r.name = Strip(req'[p].name)
                                       /\ r.user_id = req'[p].user}
          IN IF mine # {}
             THEN pc'[p] = "done" /\ resp'[p].status = 409 /\ repos' = repos
             ELSE pc'[p] = "create_insert" /\ repos' = repos
    /\ pc[p] = "create_insert" /\ pc'[p] # "create_insert" =>
          /\ pc'[p] = "done" /\ resp'[p].status = 201
          /\ \E r \in repos' \ repos :
                /\ repos' = repos \cup {r}
                /\ r.name = Strip(req[p].name)
                /\ r.user_id = req[p].user

\* C1: over any sequence of create-repository and delete-repository
\* requests no two repositories of one user share a name; a create of a
\* valid name the caller already uses answers 409 and adds no repository,
\* and any other create of a valid name (a name only other users use
\* included) answers 201 and adds exactly that repository.
C1_UniqueNamePerOwner ==
    /\ []NoDuplicateNames
    /\ [][\A p \in Workers : CreateOutcome(p)]_vars

\* a second create of (name, owner) was refused while another user holds
\* a repository of the same name
C1_Witness ==
    /\ pc[1] = "done" /\ req[1].op = "create_repository"
    /\ resp[1].status = 409
    /\ \E r1, r2 \in repos :
          /\ r1.name = Strip(req[1].name) /\ r2.name = r1.name
          /\ r1.user_id = req[1].user /\ r2.user_id # r1.user_id

\* C2: of create-repository requests for the same (name, owner) that run
\* concurrently at most one answers 201, and the store never holds two
\* repositories with the same name and owner.
C2_OneWinner ==
    /\ NoDuplicateNames
    /\ \A p, q \in Workers :
          /\ p # q
          /\ pc[p] = "done" /\ req[p].op = "create_repository"
          /\ pc[q] = "done" /\ req[q].op = "create_repository"
          /\ Strip(req[p].name) = Strip(req[q].name)
          /\ req[p].user = req[q].user
          => ~(resp[p].status = 201 /\ resp[q].status = 201)

IsDeleteRepo(r) == r.op \in {"delete_repository", "api_delete_repository"}

\* C3: a delete-repository request (either route) that answers 200 leaves
\* no metadata row and no file on disk of any paper the repository owned,
\* and the repository itself is gone.
C3_CascadeRemovesRowsAndFiles ==
    [][\A p \in Workers :
          /\ pc[p] = "idle" /\ pc'[p] = "done" /\ IsDeleteRepo(req'[p])
          /\ resp'[p].status = 200
          => /\ \A r \in repos' : r.id # req'[p].repo_id
             /\ \A q \in PapersOf(req'[p].repo_id) :
                   /\ \A x \in papers' : x.id # q.id
                   /\ (UPLOAD_FOLDER \o q.filepath) \notin DOMAIN files']_vars

\* C4: a delete-repository request (either route) by a caller who is not
\* the stored owner answers 403 and changes neither the repositories nor
\* the papers.
C4_DeleteByOwnerOnly ==
    [][\A p \in Workers :
          /\ pc[p] = "idle" /\ pc'[p] = "done" /\ IsDeleteRepo(req'[p])
          /\ \E r \in repos : r.id = req'[p].repo_id /\ r.user_id # req'[p].user
          => /\ resp'[p].status = 403
             /\ repos' = repos
             /\ papers' = papers]_vars

\* the upload an api_upload_paper request has got past its checks with
Uploading(p) ==
    /\ req[p].op = "api_upload_paper"
    /\ \/ pc[p] \in {"upload_save", "upload_commit"}
       \/ pc[p] = "done" /\ resp[p].status \in {201, 500}

StoredPath(p) == <<Str(req[p].repo_id), req[p].filename>>

\* C5: when an upload request has finished, the file at its stored path
\* and the metadata row with that path exist both or neither.
C5_UploadAllOrNothing ==
    \A p \in Workers :
        pc[p] = "done" /\ req[p].op = "api_upload_paper" =>
            ((UPLOAD_FOLDER \o StoredPath(p)) \in DOMAIN files
                <=> \E q \in papers : q.filepath = StoredPath(p))

\* C6: a fetch of a stored file that answers with bytes serves a file
\* located inside the storage root.
C6_ServesOnlyInsideRoot ==
    \A p \in Workers :
        pc[p] = "done" /\ req[p].op = "api_serve_paper" /\ resp[p].status = 200
            => InsideRoot(resp[p].served)

\* C7: two uploads in progress have different stored paths, and no upload
\* writes its file over a file that is already there.
C7_DistinctStoredPaths ==
    /\ [](\A p, q \in Workers :
            p # q /\ Uploading(p) /\ Uploading(q) => StoredPath(p) # StoredPath(q))
    /\ [][\A p \in Workers :
            pc[p] = "upload_save" /\ pc'[p] = "upload_commit"
                => (UPLOAD_FOLDER \o StoredPath(p)) \notin DOMAIN files]_vars

\* C8: a fetch by the stored path of a paper that a successful upload
\* returned, and that has not been deleted, answers the uploaded bytes.
C8_RoundTrip ==
    [][\A p \in Workers :
          Began(p, "api_serve_paper") =>
              \A q \in papers :
                  q.filepath = req'[p].filepath /\ q.id \in DOMAIN sent
                      => resp'[p].status = 200 /\ resp'[p].body = sent[q.id]]_vars

\* C9: an update whose last_page_seen is present, not null and no integer
\* answers 400 and leaves every stored paper as it was.
C9_InvalidPageLeavesPaper ==
    [][\A p \in Workers :
          /\ Began(p, "api_paper_detail") /\ req'[p].method = "PUT"
          /\ \E q \in papers : q.id = req'[p].paper_id
          /\ req'[p].last_page_seen.t \notin {"absent", "null"}
          /\ int(req'[p].last_page_seen).raises # "none"
          => resp'[p].status = 400 /\ papers' = papers]_vars

\* the files written directly into the upload folder for an extraction
TempFiles == {f \in DOMAIN files : Front(f) = UPLOAD_FOLDER}

\* C10: when an extract-text or chat request has finished, on whatever
\* exit path, no temporary file is left in the upload folder.
C10_NoTempFileLeft ==
    \A p \in Workers :
        pc[p] = "done" /\ req[p].op \in {"upload_file", "chat"} => TempFiles = {}

\* C11: a finished extract-text request was dispatched on the lower-case
\* extension of the uploaded name: pdf called the PDF strategy, docx the
\* DOCX strategy, png, jpg and jpeg the image strategy (and a readable
\* image is answered with 200); any other kind is answered with 400 and
\* no strategy was called.
C11_DispatchByExtension ==
    \A p \in Workers :
        /\ pc[p] = "done" /\ req[p].op = "upload_file"
        /\ req[p].file.present /\ req[p].file.filename # <<>>
        => LET name == req[p].file.filename
               ext == IF LastIndex(name, ".") = 0 THEN <<>>
                      ELSE Lower(AfterLastDot(name))
           IN IF ext = <<"pdf">> THEN req[p].invoked = "pdf"
              ELSE IF ext = <<"docx">> THEN req[p].invoked = "docx"
              ELSE IF ext \in {<<"png">>, <<"jpg">>, <<"jpeg">>}
              THEN /\ req[p].invoked = "image"
                   /\ req[p].file.data # Corrupt => resp[p].status = 200
              ELSE resp[p].status = 400 /\ req[p].invoked = "none"

\* C12: in every reachable state every paper row refers to an existing
\* repository, whatever the interleaving of upload-paper and
\* delete-repository.
C12_NoOrphanPaper ==
    \A q \in papers : \E r \in repos : r.id = q.repository_id

C14_RejectedUploadLeavesNothing ==
    [][\A p \in Workers :
          Began(p, "api_upload_paper") =>
             LET name == req'[p].file.filename
                 n == Len(name)
                 has_extension ==
                     /\ n >= 2 /\ name[n - 1] = "."
                     /\ name[n] \in {"pdf", "PDF", "txt", "doc", "docx"}
                 no_repo == \A x \in repos : x.id # req'[p].repo_id
                 bad_file == ~req'[p].file.present \/ ~has_extension
             IN /\ no_repo => pc'[p] = "done" /\ resp'[p].status = 404
                /\ ~no_repo /\ bad_file =>
                      pc'[p] = "done" /\ resp'[p].status = 400
                /\ pc'[p] = "done" =>
                      /\ resp'[p].status \in {400, 404}
                      /\ no_repo \/ bad_file
                      /\ files' = files /\ dirs' = dirs /\ papers' = papers]_vars

\* an upload with an extension that is not allowed has been refused while
\* the repository exists and holds a paper
C14_Witness ==
    \E p \in Workers :
        /\ pc[p] = "done" /\ req[p].op = "api_upload_paper"
        /\ resp[p].status = 400
        /\ req[p].file.present /\ req[p].file.filename = <<"a", ".", "png">>
        /\ \E x \in repos : x.id = req[p].repo_id
        /\ papers # {}

C16_IndependentExtraction ==
    \A p \in Workers :
        /\ pc[p] = "done" /\ req[p].op = "upload_file" =>
              /\ resp[p].status = 200
              /\ resp[p].extractedText = <<"text of", req[p].file.data>>
        /\ pc[p] = "done" /\ req[p].op = "chat" =>
              /\ resp[p].status \in CompletionStatuses
              /\ resp[p].prompt =
                    <<"Q", "text of", req[p].file.data>> \o
                    (IF req[p].image.present
                     THEN <<"text of", req[p].image.data>> ELSE <<>>)

\* the paper rows of the repositories of a user, and the files stored in
\* the directories of those repositories
PapersOwnedBy(user) ==
    {q \in papers : \E r \in repos : r.id = q.repository_id /\ r.user_id = user}

FilesOwnedBy(user) ==
    LET mine == {f \in DOMAIN files :
                    /\ Len(f) = Len(UPLOAD_FOLDER) + 2
                    /\ SubSeq(f, 1, Len(UPLOAD_FOLDER)) = UPLOAD_FOLDER
                    /\ \E r \in repos :
                          /\ r.user_id = user
                          /\ f[Len(UPLOAD_FOLDER) + 1] = Str(r.id)}
    IN [f \in mine |-> files[f]]

\* C17: a step of an upload-paper, get/update-paper or delete-paper request
\* made by one user leaves the paper rows (with their notes, reading
\* positions and last-opened times) and the stored files of every
\* repository of every other user as they were.
C17_PaperIsolation ==
    [][\A p \in Workers :
          /\ pc'[p] # pc[p]
          /\ req'[p].op \in {"api_upload_paper", "api_paper_detail", "api_delete_paper"}
          => \A other \in Users \ {req'[p].user} :
                /\ PapersOwnedBy(other)' = PapersOwnedBy(other)
                /\ FilesOwnedBy(other)' = FilesOwnedBy(other)]_vars

====
